---- MODULE Spec2Model ----
(***************************************************************************)
(* The tag-settings configuration of skier_aitagging_plugin                *)
(* (backend/plugins/skier_aitagging_plugin/tag_config.py): the row parser, *)
(* the override merge, TagConfiguration.load, TagConfiguration.resolve and *)
(* the process-wide cache behind get_tag_configuration.                    *)
(*                                                                         *)
(* Python values are modelled as follows.  A str is a sequence of          *)
(* one-character strings, so that strip() and lower() are computed.  An    *)
(* Optional value is <<>> (None) or <<v>>.  A float is an integer (the     *)
(* numeric cells of the row universe are digit strings).  A dict is a      *)
(* function.  An object reference is an index into a heap, 0 being "no     *)
(* object".                                                                *)
(***************************************************************************)
EXTENDS Integers, Sequences, FiniteSets, TLC

(***************************************************************************)
(* Bounds of the model.                                                    *)
(***************************************************************************)
\* longest config file, in data rows
MaxRows == 2
\* threads calling get_tag_configuration concurrently
NumThreads == 2
\* get_tag_configuration calls made in all, over all threads
MaxCalls == 3

(***************************************************************************)
(* Optional values.                                                        *)
(***************************************************************************)
None == <<>>

Some(v) == <<v>>

Val(o) == o[1]

(***************************************************************************)
(* str: strip(), lower(), replace(c, "").                                  *)
(***************************************************************************)
Whitespace == {" ", "\t"}

UpperCase == <<"A","B","C","D","E","F","G","H","I","J","K","L","M",
               "N","O","P","Q","R","S","T","U","V","W","X","Y","Z">>

LowerCase == <<"a","b","c","d","e","f","g","h","i","j","k","l","m",
               "n","o","p","q","r","s","t","u","v","w","x","y","z">>

lowerChar(c) ==
    IF \E i \in 1..26 : UpperCase[i] = c
    THEN LowerCase[CHOOSE i \in 1..26 : UpperCase[i] = c]
    ELSE c

lower(s) == [i \in 1..Len(s) |-> lowerChar(s[i])]

RECURSIVE lstrip(_)
lstrip(s) == IF s # <<>> /\ Head(s) \in Whitespace THEN lstrip(Tail(s)) ELSE s

RECURSIVE rstrip(_)
rstrip(s) ==
    IF s # <<>> /\ s[Len(s)] \in Whitespace
    THEN rstrip(SubSeq(s, 1, Len(s) - 1))
    ELSE s

strip(s) == rstrip(lstrip(s))

without(s, c) == SelectSeq(s, LAMBDA ch : ch # c)

(***************************************************************************)
(* Value parsers.  Their argument is a cell of the normalized row: None or *)
(* a str.                                                                  *)
(***************************************************************************)
_normalize_key(key) == without(without(without(lower(strip(key)), " "), "-"), "_")

_normalize_string(value) ==
    IF value = None THEN None
    ELSE IF strip(Val(value)) = <<>> THEN None ELSE Some(strip(Val(value)))

TrueTexts == { <<"1">>, <<"t","r","u","e">>, <<"y","e","s">>, <<"y">> }

FalseTexts == { <<"0">>, <<"f","a","l","s","e">>, <<"n","o">>, <<"n">> }

_parse_bool(value) ==
    IF value = None THEN None
    ELSE IF lower(strip(Val(value))) \in TrueTexts THEN Some(TRUE)
    ELSE IF lower(strip(Val(value))) \in FalseTexts THEN Some(FALSE)
    ELSE None

Digits == <<"0","1","2","3","4","5","6","7","8","9">>

IsDigit(c) == \E d \in 1..10 : Digits[d] = c

DigitValue(c) == (CHOOSE d \in 1..10 : Digits[d] = c) - 1

RECURSIVE DecimalValue(_)
DecimalValue(text) ==
    IF text = <<>> THEN 0
    ELSE 10 * DecimalValue(SubSeq(text, 1, Len(text) - 1)) + DigitValue(text[Len(text)])

\* float(text) of a digit string is its decimal value; of a text with any other
\* character of the row universe (a letter) it raises ValueError.
_parse_float(value) ==
    IF value = None THEN None
    ELSE IF strip(Val(value)) = <<>> THEN None
    ELSE IF \A i \in 1..Len(strip(Val(value))) : IsDigit(strip(Val(value))[i])
         THEN Some(DecimalValue(strip(Val(value))))
         ELSE None

(***************************************************************************)
(* TagSettings, TagSettingsOverride and the built-in defaults.             *)
(***************************************************************************)
s__global__ == <<"_","_","g","l","o","b","a","l","_","_">>

sdefault == <<"d","e","f","a","u","l","t">>

s_AI == <<"_","A","I">>

_base_settings ==
    [ tag_name |-> s__global__,
      stash_name |-> None,
      markers_enabled |-> TRUE,
      scene_tag_enabled |-> TRUE,
      image_enabled |-> FALSE,
      required_scene_tag_duration |-> None,
      min_marker_duration |-> None,
      max_gap |-> None,
      merge_strategy |-> sdefault,
      merge_params |-> <<None, None, None, None, None>> ]

TagSettingsOverride ==
    [ stash_name |-> None,
      markers_enabled |-> None,
      scene_tag_enabled |-> None,
      image_enabled |-> None,
      required_scene_tag_duration |-> None,
      min_marker_duration |-> None,
      max_gap |-> None,
      merge_strategy |-> None,
      merge_params |-> <<None, None, None, None, None>> ]

(***************************************************************************)
(* _apply_override(base, override): the value of base after the call.      *)
(* `override.stash_name or None` is None for the empty string.  A tuple of *)
(* five elements is truthy, so merge_params is always merged.              *)
(***************************************************************************)
\* _apply_override gating each field on the truth of the override's value instead
\* of on its not being None: false and 0 do not override.
_apply_override_truthy(base, override) ==
    [ base EXCEPT
        !.stash_name =
            IF override.stash_name # None /\ Val(override.stash_name) # <<>>
            THEN override.stash_name ELSE @,
        !.markers_enabled =
            IF override.markers_enabled # None /\ Val(override.markers_enabled)
            THEN TRUE ELSE @,
        !.scene_tag_enabled =
            IF override.scene_tag_enabled # None /\ Val(override.scene_tag_enabled)
            THEN TRUE ELSE @,
        !.image_enabled =
            IF override.image_enabled # None /\ Val(override.image_enabled)
            THEN TRUE ELSE @,
        !.required_scene_tag_duration =
            IF override.required_scene_tag_duration # None
               /\ Val(override.required_scene_tag_duration) # 0
            THEN override.required_scene_tag_duration ELSE @,
        !.min_marker_duration =
            IF override.min_marker_duration # None
               /\ Val(override.min_marker_duration) # 0
            THEN override.min_marker_duration ELSE @,
        !.max_gap =
            IF override.max_gap # None /\ Val(override.max_gap) # 0
            THEN override.max_gap ELSE @,
        !.merge_strategy =
            IF override.merge_strategy # None /\ Val(override.merge_strategy) # <<>>
            THEN Val(override.merge_strategy) ELSE @,
        !.merge_params =
            [ idx \in 1..5 |->
                IF override.merge_params[idx] # None
                   /\ Val(override.merge_params[idx]) # 0
                THEN override.merge_params[idx] ELSE @[idx] ] ]

\* _apply_override taking the override's merge_params tuple as a whole
_apply_override_whole_params(base, override) ==
    [ base EXCEPT
        !.stash_name =
            IF override.stash_name # None
            THEN (IF Val(override.stash_name) # <<>> THEN override.stash_name ELSE None)
            ELSE @,
        !.markers_enabled =
            IF override.markers_enabled # None THEN Val(override.markers_enabled) ELSE @,
        !.scene_tag_enabled =
            IF override.scene_tag_enabled # None THEN Val(override.scene_tag_enabled) ELSE @,
        !.image_enabled =
            IF override.image_enabled # None THEN Val(override.image_enabled) ELSE @,
        !.required_scene_tag_duration =
            IF override.required_scene_tag_duration # None
            THEN override.required_scene_tag_duration ELSE @,
        !.min_marker_duration =
            IF override.min_marker_duration # None
            THEN override.min_marker_duration ELSE @,
        !.max_gap =
            IF override.max_gap # None THEN override.max_gap ELSE @,
        !.merge_strategy =
            IF override.merge_strategy # None THEN Val(override.merge_strategy) ELSE @,
        !.merge_params = override.merge_params ]

\* _apply_override storing the override's stash_name as it is, the empty string too
_apply_override_stores_empty(base, override) ==
    [ base EXCEPT
        !.stash_name =
            IF override.stash_name # None THEN override.stash_name ELSE @,
        !.markers_enabled =
            IF override.markers_enabled # None THEN Val(override.markers_enabled) ELSE @,
        !.scene_tag_enabled =
            IF override.scene_tag_enabled # None THEN Val(override.scene_tag_enabled) ELSE @,
        !.image_enabled =
            IF override.image_enabled # None THEN Val(override.image_enabled) ELSE @,
        !.required_scene_tag_duration =
            IF override.required_scene_tag_duration # None
            THEN override.required_scene_tag_duration ELSE @,
        !.min_marker_duration =
            IF override.min_marker_duration # None
            THEN override.min_marker_duration ELSE @,
        !.max_gap =
            IF override.max_gap # None THEN override.max_gap ELSE @,
        !.merge_strategy =
            IF override.merge_strategy # None THEN Val(override.merge_strategy) ELSE @,
        !.merge_params =
            [ idx \in 1..5 |->
                IF override.merge_params[idx] = None THEN @[idx]
                ELSE override.merge_params[idx] ] ]

_apply_override(base, override) ==
    [ base EXCEPT
        !.stash_name =
            IF override.stash_name # None
            THEN (IF Val(override.stash_name) # <<>> THEN override.stash_name ELSE None)
            ELSE @,
        !.markers_enabled =
            IF override.markers_enabled # None THEN Val(override.markers_enabled) ELSE @,
        !.scene_tag_enabled =
            IF override.scene_tag_enabled # None THEN Val(override.scene_tag_enabled) ELSE @,
        !.image_enabled =
            IF override.image_enabled # None THEN Val(override.image_enabled) ELSE @,
        !.required_scene_tag_duration =
            IF override.required_scene_tag_duration # None
            THEN override.required_scene_tag_duration ELSE @,
        !.min_marker_duration =
            IF override.min_marker_duration # None
            THEN override.min_marker_duration ELSE @,
        !.max_gap =
            IF override.max_gap # None THEN override.max_gap ELSE @,
        !.merge_strategy =
            IF override.merge_strategy # None THEN Val(override.merge_strategy) ELSE @,
        !.merge_params =
            [ idx \in 1..5 |->
                IF override.merge_params[idx] = None THEN @[idx]
                ELSE override.merge_params[idx] ] ]

(***************************************************************************)
(* The config file.  csv.DictReader pairs the cells of a data row with the *)
(* header texts; a row shorter than the header reads None for the missing  *)
(* cells.  The header below spells its columns in the ways the parser      *)
(* tolerates; the columns it lacks (SceneTagEnabled, the two durations,    *)
(* MarkerMergeParam2, 4 and 5) read as absent.                             *)
(***************************************************************************)
Header ==
    << <<"T","a","g","N","a","m","e">>,
       <<"S","t","a","s","h"," ","N","a","m","e">>,
       <<"m","a","r","k","e","r","s","_","e","n","a","b","l","e","d">>,
       <<"I","M","A","G","E","-","E","N","A","B","L","E","D">>,
       <<"M","a","x","G","a","p">>,
       <<"M","e","r","g","e","S","t","r","a","t","e","g","y">>,
       <<"M","a","r","k","e","r","M","e","r","g","e","P","a","r","a","m","1">>,
       <<"M","a","r","k","e","r","M","e","r","g","e","P","a","r","a","m","3">> >>

DictReaderRow(cells) ==
    [ key \in { Header[i] : i \in 1..Len(Header) } |->
        IF (CHOOSE i \in 1..Len(Header) : Header[i] = key) <= Len(cells)
        THEN Some(cells[CHOOSE i \in 1..Len(Header) : Header[i] = key])
        ELSE None ]

NormalizedHeader == [ i \in 1..Len(Header) |-> _normalize_key(Header[i]) ]

\* The dict `normalized` of _parse_row: for a normalized key, the value of the
\* last column that normalizes to it, stripped.
NormalizedRow(raw_row) ==
    [ norm_key \in { NormalizedHeader[i] : i \in 1..Len(Header) } |->
        LET last == CHOOSE i \in 1..Len(Header) :
                        /\ NormalizedHeader[i] = norm_key
                        /\ \A j \in 1..Len(Header) :
                               NormalizedHeader[j] = norm_key => j <= i
            value == raw_row[Header[last]]
        IN  IF value = None THEN None ELSE Some(strip(Val(value))) ]

\* dict.get(key): None for a missing key.
Get(d, key) == IF key \in DOMAIN d THEN d[key] ELSE None

\* x or y, for Optional strs.
Or(x, y) == IF x # None /\ Val(x) # <<>> THEN x ELSE y

stagname == <<"t","a","g","n","a","m","e">>

stag == <<"t","a","g">>

sstashname == <<"s","t","a","s","h","n","a","m","e">>

smarkersenabled == <<"m","a","r","k","e","r","s","e","n","a","b","l","e","d">>

sscenetagenabled == <<"s","c","e","n","e","t","a","g","e","n","a","b","l","e","d">>

simageenabled == <<"i","m","a","g","e","e","n","a","b","l","e","d">>

srequiredscenetagduration == <<"r","e","q","u","i","r","e","d","s","c","e","n","e","t","a","g","d","u","r","a","t","i","o","n">>

sminmarkerduration == <<"m","i","n","m","a","r","k","e","r","d","u","r","a","t","i","o","n">>

smaxgap == <<"m","a","x","g","a","p">>

smergestrategy == <<"m","e","r","g","e","s","t","r","a","t","e","g","y">>

\* f"markermergeparam{idx}"
smarkermergeparam(idx) == Append(<<"m","a","r","k","e","r","m","e","r","g","e","p","a","r","a","m">>, Digits[idx + 1])

sstar == <<"*">>

s__default__ == <<"_","_","d","e","f","a","u","l","t","_","_">>

DefaultMarkers == { <<>>, sstar, sdefault, s__default__ }

\* _parse_row without lines 205-206: a blank row yields an override with no field set
_parse_row_no_skip(raw_row) ==
    LET normalized == NormalizedRow(raw_row)
        tag_value == Or(Get(normalized, stagname), Get(normalized, stag))
        tag_text == IF tag_value = None THEN <<>> ELSE strip(Val(tag_value))
        override ==
            [ TagSettingsOverride EXCEPT
                !.stash_name = _normalize_string(Get(normalized, sstashname)),
                !.markers_enabled = _parse_bool(Get(normalized, smarkersenabled)),
                !.scene_tag_enabled = _parse_bool(Get(normalized, sscenetagenabled)),
                !.image_enabled = _parse_bool(Get(normalized, simageenabled)),
                !.required_scene_tag_duration =
                    _parse_float(Get(normalized, srequiredscenetagduration)),
                !.min_marker_duration = _parse_float(Get(normalized, sminmarkerduration)),
                !.max_gap = _parse_float(Get(normalized, smaxgap)),
                !.merge_strategy = _normalize_string(Get(normalized, smergestrategy)),
                !.merge_params =
                    [ idx \in 1..5 |->
                        _parse_float(Get(normalized, smarkermergeparam(idx))) ] ]
    IN  IF tag_text \in DefaultMarkers
        THEN <<None, Some(override)>>
        ELSE <<Some(lower(tag_text)), Some(override)>>

\* _parse_row comparing the tag with the markers of a default row without regard to case
_parse_row_caseless(raw_row) ==
    LET normalized == NormalizedRow(raw_row)
        tag_value == Or(Get(normalized, stagname), Get(normalized, stag))
        tag_text == IF tag_value = None THEN <<>> ELSE strip(Val(tag_value))
        override ==
            [ TagSettingsOverride EXCEPT
                !.stash_name = _normalize_string(Get(normalized, sstashname)),
                !.markers_enabled = _parse_bool(Get(normalized, smarkersenabled)),
                !.scene_tag_enabled = _parse_bool(Get(normalized, sscenetagenabled)),
                !.image_enabled = _parse_bool(Get(normalized, simageenabled)),
                !.required_scene_tag_duration =
                    _parse_float(Get(normalized, srequiredscenetagduration)),
                !.min_marker_duration = _parse_float(Get(normalized, sminmarkerduration)),
                !.max_gap = _parse_float(Get(normalized, smaxgap)),
                !.merge_strategy = _normalize_string(Get(normalized, smergestrategy)),
                !.merge_params =
                    [ idx \in 1..5 |->
                        _parse_float(Get(normalized, smarkermergeparam(idx))) ] ]
    IN  IF \A k \in DOMAIN normalized :
               normalized[k] # None => strip(Val(normalized[k])) = <<>>
        THEN <<None, None>>
        ELSE IF lower(tag_text) \in DefaultMarkers
             THEN <<None, Some(override)>>
             ELSE <<Some(lower(tag_text)), Some(override)>>

\* _parse_row(row_number, raw_row): <<tag_key, override>>, both Optional.  The row
\* number only serves the log.
_parse_row(raw_row) ==
    LET normalized == NormalizedRow(raw_row)
        tag_value == Or(Get(normalized, stagname), Get(normalized, stag))
        tag_text == IF tag_value = None THEN <<>> ELSE strip(Val(tag_value))
        override ==
            [ TagSettingsOverride EXCEPT
                !.stash_name = _normalize_string(Get(normalized, sstashname)),
                !.markers_enabled = _parse_bool(Get(normalized, smarkersenabled)),
                !.scene_tag_enabled = _parse_bool(Get(normalized, sscenetagenabled)),
                !.image_enabled = _parse_bool(Get(normalized, simageenabled)),
                !.required_scene_tag_duration =
                    _parse_float(Get(normalized, srequiredscenetagduration)),
                !.min_marker_duration = _parse_float(Get(normalized, sminmarkerduration)),
                !.max_gap = _parse_float(Get(normalized, smaxgap)),
                !.merge_strategy = _normalize_string(Get(normalized, smergestrategy)),
                !.merge_params =
                    [ idx \in 1..5 |->
                        _parse_float(Get(normalized, smarkermergeparam(idx))) ] ]
    IN  IF \A k \in DOMAIN normalized :
               normalized[k] # None => strip(Val(normalized[k])) = <<>>
        THEN <<None, None>>
        ELSE IF tag_text \in DefaultMarkers
             THEN <<None, Some(override)>>
             ELSE <<Some(lower(tag_text)), Some(override)>>

(***************************************************************************)
(* The rows, files, tag names and settings-store outcomes the model draws  *)
(* its inputs from.                                                        *)
(***************************************************************************)
\* every cell empty or whitespace
rowBlank == << <<" ">>, <<>>, <<>>, <<"\t">> >>

\* TagName=*, MarkersEnabled=false
rowStar == << <<"*">>, <<>>, <<"f","a","l","s","e">> >>

\* TagName=Blonde, ImageEnabled=true
rowBlonde == << <<"B","l","o","n","d","e">>, <<>>, <<>>, <<"t","r","u","e">> >>

\* TagName=" Cat ", StashName=Kitty, ImageEnabled=YES, MaxGap=0, MarkerMergeParam1=7
rowCat == << <<" ","C","a","t"," ">>, <<"K","i","t","t","y">>, <<>>, <<"Y","E","S">>, <<"0">>, <<>>, <<"7">>, <<>> >>

\* TagName=CAT, MarkersEnabled=No, MergeStrategy=chain, MarkerMergeParam3=x
rowCAT == << <<"C","A","T">>, <<>>, <<"N","o">>, <<>>, <<>>, <<"c","h","a","i","n">>, <<>>, <<"x">> >>

\* TagName=Default, MarkersEnabled=0
rowDefaultCased == << <<"D","e","f","a","u","l","t">>, <<>>, <<"0">> >>

\* TagName empty, StashName=Shared, MarkersEnabled=yes, ImageEnabled=1, MaxGap=5,
\* MergeStrategy=max, MarkerMergeParam1=2, MarkerMergeParam3=9
rowShared == << <<>>, <<"S","h","a","r","e","d">>, <<"y","e","s">>, <<"1">>, <<"5">>, <<"m","a","x">>, <<"2">>, <<"9">> >>

\* TagName=default, ImageEnabled=y
rowDefault == << <<"d","e","f","a","u","l","t">>, <<>>, <<>>, <<"y">> >>

\* TagName=" __default__", MaxGap=3
rowDunder == << <<" ","_","_","d","e","f","a","u","l","t","_","_">>, <<>>, <<>>, <<>>, <<"3">> >>

\* rows whose tag is, or resembles, a marker of a default row
MarkerRows == { rowDefault, rowDunder, rowDefaultCased }

Rows == { rowBlank, rowStar, rowBlonde, rowCat, rowCAT, rowDefaultCased, rowShared }

RECURSIVE SeqsUpTo(_, _)
SeqsUpTo(S, n) ==
    IF n = 0 THEN { <<>> }
    ELSE SeqsUpTo(S, n - 1)
         \cup { Append(f, r) : f \in { g \in SeqsUpTo(S, n - 1) : Len(g) = n - 1 }, r \in S }

Files == SeqsUpTo(Rows, MaxRows) \cup SeqsUpTo(MarkerRows, MaxRows)

\* the bundled tag_settings.template.csv
TemplateRows == << rowShared >>

\* the files the concurrent callers' environment writes
StoreFiles == { << rowStar >>, << rowCat >> }

sBlonde == <<"B","l","o","n","d","e">>

TagNames == { sBlonde, <<" ","b","l","o","n","d","e"," ">>, <<"C","A","T">>, <<" ">>, <<>>, sdefault }

\* The plugin_settings row for (skier_aitagging_plugin, tag_suffix): None when
\* there is none, else its value and default_value.
PluginSettings ==
    { None, Some([ value |-> None, default_value |-> Some(<<>>) ]) }

\* _get_tag_suffix(), given whether the query raises and the row it finds.
_get_tag_suffix(raises, row) ==
    IF raises THEN s_AI
    ELSE IF row = None THEN s_AI
    ELSE LET value == IF Val(row).value # None THEN Val(row).value
                      ELSE Val(row).default_value
         IN  IF value # None THEN Val(value) ELSE s_AI

(***************************************************************************)
(* State.                                                                  *)
(***************************************************************************)
Threads == 1..NumThreads

VARIABLES
    config_file,      \* tag_settings.csv: None (absent) or Some(its data rows)
    template_file,    \* tag_settings.template.csv: None or Some(its data rows)
    plugin_setting,   \* the tag_suffix row of the settings store, or None
    _CONFIG_CACHE,    \* reference to a TagConfiguration, 0 for None
    _CONFIG_LOCK,     \* the thread holding the lock, 0 when free
    settings_heap,    \* the TagSettings objects that loads allocated
    dict_heap,        \* the overrides dicts that loads allocated
    config_heap,      \* the TagConfiguration objects
    pc,               \* per thread: the line it is about to execute
    reload,           \* per thread: the reload argument of its call
    frame,            \* per thread: the locals of TagConfiguration.load
    returned,         \* per thread: what its last call returned, 0 for None
    resolved,         \* per thread: its last resolve call and result, or None
    calls_left,       \* get_tag_configuration calls still to be made
    built,            \* history, per TagConfiguration: its load and what it held when built
    floor,            \* history, per thread: last_reload when its call started
    last_reload,      \* history: the snapshot loaded by the last completed reload call
    reload_requested, \* history: some call asked for a reload
    saw_cache,        \* history, per thread: line 188 of its call found a snapshot
    took_lock         \* history, per thread: its call acquired the lock

vars == << config_file, template_file, plugin_setting, _CONFIG_CACHE, _CONFIG_LOCK, settings_heap,
           dict_heap, config_heap, pc, reload, frame, returned, resolved,
           calls_left, built, floor, last_reload, reload_requested,
           saw_cache, took_lock >>

files == << config_file, template_file, plugin_setting >>

heaps == << settings_heap, dict_heap, config_heap, built >>

store == << _CONFIG_CACHE, _CONFIG_LOCK >>

callers == << reload, returned, resolved, calls_left, floor, last_reload,
             reload_requested, saw_cache, took_lock >>

\* the locals of a thread that is not inside load
NoFrame ==
    [ global_settings |-> 0, overrides |-> 0, tag_suffix |-> <<>>, reader |-> <<>>,
      rows |-> <<>>, failed |-> FALSE, result |-> 0 ]

InLoad == { "L153", "L159", "L170", "assign" }

(***************************************************************************)
(* TagConfiguration.resolve(tag_name), on the TagConfiguration `self`.     *)
(* dataclasses.replace builds a new TagSettings, so the call leaves the    *)
(* heap as it is and its value is the new object.                          *)
(***************************************************************************)
\* resolve looking the override up under the name as spelled, not lower-cased
resolve_no_lower(self, tag_name) ==
    LET normalized == strip(tag_name)
        global == settings_heap[self.global_settings]
        overrides == dict_heap[self.overrides]
        cloned == [ global EXCEPT !.tag_name = IF normalized # <<>> THEN normalized ELSE @ ]
        merged == IF normalized # <<>> /\ normalized \in DOMAIN overrides
                  THEN _apply_override(cloned, overrides[normalized])
                  ELSE cloned
    IN  [ merged EXCEPT
            !.stash_name =
                IF @ = None \/ Val(@) = <<>>
                THEN Some(IF normalized # <<>> THEN normalized \o self.tag_suffix
                          ELSE normalized)
                ELSE @,
            !.merge_strategy = IF @ = <<>> THEN sdefault ELSE @ ]

\* resolve without lines 122-125, the fallbacks
resolve_no_fallback(self, tag_name) ==
    LET normalized == strip(tag_name)
        global == settings_heap[self.global_settings]
        overrides == dict_heap[self.overrides]
        cloned == [ global EXCEPT !.tag_name = IF normalized # <<>> THEN normalized ELSE @ ]
    IN  IF normalized # <<>> /\ lower(normalized) \in DOMAIN overrides
        THEN _apply_override(cloned, overrides[lower(normalized)])
        ELSE cloned

\* resolve carrying on with the baseline's tag_name when the name given is empty:
\* the override stored for it is applied and the stash_name is derived from it
resolve_effective_name(self, tag_name) ==
    LET global == settings_heap[self.global_settings]
        overrides == dict_heap[self.overrides]
        normalized == IF strip(tag_name) # <<>> THEN strip(tag_name) ELSE global.tag_name
        cloned == [ global EXCEPT !.tag_name = normalized ]
        merged == IF normalized # <<>> /\ lower(normalized) \in DOMAIN overrides
                  THEN _apply_override(cloned, overrides[lower(normalized)])
                  ELSE cloned
    IN  [ merged EXCEPT
            !.stash_name =
                IF @ = None \/ Val(@) = <<>>
                THEN Some(IF normalized # <<>> THEN normalized \o self.tag_suffix
                          ELSE normalized)
                ELSE @,
            !.merge_strategy = IF @ = <<>> THEN sdefault ELSE @ ]

\* resolve deriving the stash_name whenever the tag's own override gives none,
\* whatever the baseline has
resolve_own_stash_name(self, tag_name) ==
    LET normalized == strip(tag_name)
        global == settings_heap[self.global_settings]
        overrides == dict_heap[self.overrides]
        cloned == [ global EXCEPT !.tag_name = IF normalized # <<>> THEN normalized ELSE @,
                                  !.stash_name = None ]
        merged == IF normalized # <<>> /\ lower(normalized) \in DOMAIN overrides
                  THEN _apply_override(cloned, overrides[lower(normalized)])
                  ELSE cloned
    IN  [ merged EXCEPT
            !.stash_name =
                IF @ = None \/ Val(@) = <<>>
                THEN Some(IF normalized # <<>> THEN normalized \o self.tag_suffix
                          ELSE normalized)
                ELSE @,
            !.merge_strategy = IF @ = <<>> THEN sdefault ELSE @ ]

\* resolve going on with the lower-cased key as the name: the result is named by
\* it and the stash_name is derived from it
resolve_lowered_name(self, tag_name) ==
    LET normalized == lower(strip(tag_name))
        global == settings_heap[self.global_settings]
        overrides == dict_heap[self.overrides]
        cloned == [ global EXCEPT !.tag_name = IF normalized # <<>> THEN normalized ELSE @ ]
        merged == IF normalized # <<>> /\ normalized \in DOMAIN overrides
                  THEN _apply_override(cloned, overrides[normalized])
                  ELSE cloned
    IN  [ merged EXCEPT
            !.stash_name =
                IF @ = None \/ Val(@) = <<>>
                THEN Some(IF normalized # <<>> THEN normalized \o self.tag_suffix
                          ELSE normalized)
                ELSE @,
            !.merge_strategy = IF @ = <<>> THEN sdefault ELSE @ ]

resolve(self, tag_name) ==
    LET normalized == strip(tag_name)
        global == settings_heap[self.global_settings]
        overrides == dict_heap[self.overrides]
        cloned == [ global EXCEPT !.tag_name = IF normalized # <<>> THEN normalized ELSE @ ]
        merged == IF normalized # <<>> /\ lower(normalized) \in DOMAIN overrides
                  THEN _apply_override(cloned, overrides[lower(normalized)])
                  ELSE cloned
    IN  [ merged EXCEPT
            !.stash_name =
                IF @ = None \/ Val(@) = <<>>
                THEN Some(IF normalized # <<>> THEN normalized \o self.tag_suffix
                          ELSE normalized)
                ELSE @,
            !.merge_strategy = IF @ = <<>> THEN sdefault ELSE @ ]

(***************************************************************************)
(* TagConfiguration.load, a step at a time.  The caller holds the lock and *)
(* is at line 186 (reload) or line 191 (first access).                     *)
(***************************************************************************)
\* overrides[tag_key] = override
Put(d, key, value) ==
    [ k \in DOMAIN d \cup {key} |-> IF k = key THEN value ELSE d[k] ]

\* load accumulating into the objects of the cached snapshot, when there is one,
\* instead of into new ones
LoadEnterShared(t) ==
    /\ pc[t] \in {"L186", "L191"}
    /\ \E raises \in BOOLEAN :
          frame' = [ frame EXCEPT ![t] =
                       [ NoFrame EXCEPT
                           !.global_settings =
                               IF _CONFIG_CACHE # 0
                               THEN config_heap[_CONFIG_CACHE].global_settings
                               ELSE Len(settings_heap) + 1,
                           !.overrides =
                               IF _CONFIG_CACHE # 0
                               THEN config_heap[_CONFIG_CACHE].overrides
                               ELSE Len(dict_heap) + 1,
                           !.tag_suffix = _get_tag_suffix(raises, plugin_setting) ] ]
    /\ settings_heap' = Append(settings_heap, _base_settings)
    /\ dict_heap' = Append(dict_heap, <<>>)
    /\ IF config_file = None /\ template_file # None
       THEN \E outcome \in {"copied", "truncated", "failed"} :
               config_file' = CASE outcome = "copied" -> template_file
                                [] outcome = "truncated" -> Some(<<>>)
                                [] outcome = "failed" -> None
       ELSE UNCHANGED config_file
    /\ pc' = [ pc EXCEPT ![t] = "L153" ]
    /\ UNCHANGED << template_file, plugin_setting, store, config_heap, built, callers >>

\* Lines 133-150: a new overrides dict, a new _base_settings(), the suffix, and
\* the provisioning of a missing config file from the template: copyfile either
\* copies, or raises leaving no file or a truncated one.
LoadEnter(t) ==
    /\ pc[t] \in {"L186", "L191"}
    /\ \E raises \in BOOLEAN :
          frame' = [ frame EXCEPT ![t] =
                       [ NoFrame EXCEPT !.global_settings = Len(settings_heap) + 1,
                                        !.overrides = Len(dict_heap) + 1,
                                        !.tag_suffix = _get_tag_suffix(raises, plugin_setting) ] ]
    /\ settings_heap' = Append(settings_heap, _base_settings)
    /\ dict_heap' = Append(dict_heap, <<>>)
    /\ IF config_file = None /\ template_file # None
       THEN \E outcome \in {"copied", "truncated", "failed"} :
               config_file' = CASE outcome = "copied" -> template_file
                                [] outcome = "truncated" -> Some(<<>>)
                                [] outcome = "failed" -> None
       ELSE UNCHANGED config_file
    /\ pc' = [ pc EXCEPT ![t] = "L153" ]
    /\ UNCHANGED << template_file, plugin_setting, store, config_heap, built, callers >>

\* a load that reads the template itself when the config file is still absent
OpenReadsTemplate(t) ==
    /\ pc[t] = "L153"
    /\ IF config_file # None \/ template_file # None
       THEN /\ frame' = [ frame EXCEPT
                            ![t].reader = Val(IF config_file # None THEN config_file
                                              ELSE template_file),
                            ![t].rows = Val(IF config_file # None THEN config_file
                                            ELSE template_file) ]
            /\ pc' = [ pc EXCEPT ![t] = "L159" ]
       ELSE /\ pc' = [ pc EXCEPT ![t] = "L170" ]
            /\ UNCHANGED frame
    /\ UNCHANGED << files, store, heaps, callers >>

\* Lines 153-158: open the file, if there is one, and read its header.
Open(t) ==
    /\ pc[t] = "L153"
    /\ IF config_file # None
       THEN /\ frame' = [ frame EXCEPT ![t].reader = Val(config_file),
                                       ![t].rows = Val(config_file) ]
            /\ pc' = [ pc EXCEPT ![t] = "L159" ]
       ELSE /\ pc' = [ pc EXCEPT ![t] = "L170" ]
            /\ UNCHANGED frame
    /\ UNCHANGED << files, store, heaps, callers >>

\* a loop that merges a row into the override its tag already has, field by field
ReadRowMerging(t) ==
    /\ pc[t] = "L159"
    /\ IF frame[t].reader = <<>>
       THEN /\ pc' = [ pc EXCEPT ![t] = "L170" ]
            /\ UNCHANGED << frame, settings_heap, dict_heap >>
       ELSE LET parsed == _parse_row(DictReaderRow(Head(frame[t].reader)))
                tag_key == parsed[1]
                override == parsed[2]
            IN  /\ frame' = [ frame EXCEPT ![t].reader = Tail(@) ]
                /\ IF override = None
                   THEN UNCHANGED << settings_heap, dict_heap >>
                   ELSE IF tag_key = None
                   THEN /\ settings_heap' =
                              [ settings_heap EXCEPT ![frame[t].global_settings] =
                                  _apply_override(@, Val(override)) ]
                        /\ UNCHANGED dict_heap
                   ELSE /\ dict_heap' =
                              [ dict_heap EXCEPT ![frame[t].overrides] =
                                  IF Val(tag_key) \in DOMAIN @
                                  THEN Put(@, Val(tag_key),
                                           [ f \in DOMAIN Val(override) |->
                                               IF f = "merge_params"
                                               THEN [ idx \in 1..5 |->
                                                        IF Val(override)[f][idx] # None
                                                        THEN Val(override)[f][idx]
                                                        ELSE @[Val(tag_key)][f][idx] ]
                                               ELSE IF Val(override)[f] # None
                                                    THEN Val(override)[f]
                                                    ELSE @[Val(tag_key)][f] ])
                                  ELSE Put(@, Val(tag_key), Val(override)) ]
                        /\ UNCHANGED settings_heap
                /\ UNCHANGED pc
    /\ UNCHANGED << files, store, config_heap, built, callers >>

\* a loop that applies each default row to the built-in defaults, not to the baseline so far
ReadRowRestarting(t) ==
    /\ pc[t] = "L159"
    /\ IF frame[t].reader = <<>>
       THEN /\ pc' = [ pc EXCEPT ![t] = "L170" ]
            /\ UNCHANGED << frame, settings_heap, dict_heap >>
       ELSE LET parsed == _parse_row(DictReaderRow(Head(frame[t].reader)))
                tag_key == parsed[1]
                override == parsed[2]
            IN  /\ frame' = [ frame EXCEPT ![t].reader = Tail(@) ]
                /\ IF override = None
                   THEN UNCHANGED << settings_heap, dict_heap >>
                   ELSE IF tag_key = None
                   THEN /\ settings_heap' =
                              [ settings_heap EXCEPT ![frame[t].global_settings] =
                                  _apply_override(_base_settings, Val(override)) ]
                        /\ UNCHANGED dict_heap
                   ELSE /\ dict_heap' =
                              [ dict_heap EXCEPT ![frame[t].overrides] =
                                  Put(@, Val(tag_key), Val(override)) ]
                        /\ UNCHANGED settings_heap
                /\ UNCHANGED pc
    /\ UNCHANGED << files, store, config_heap, built, callers >>

\* Lines 159-166: one iteration of the loop over the reader, or its end.
ReadRow(t) ==
    /\ pc[t] = "L159"
    /\ IF frame[t].reader = <<>>
       THEN /\ pc' = [ pc EXCEPT ![t] = "L170" ]
            /\ UNCHANGED << frame, settings_heap, dict_heap >>
       ELSE LET parsed == _parse_row(DictReaderRow(Head(frame[t].reader)))
                tag_key == parsed[1]
                override == parsed[2]
            IN  /\ frame' = [ frame EXCEPT ![t].reader = Tail(@) ]
                /\ IF override = None
                   THEN UNCHANGED << settings_heap, dict_heap >>
                   ELSE IF tag_key = None
                   THEN /\ settings_heap' =
                              [ settings_heap EXCEPT ![frame[t].global_settings] =
                                  _apply_override(@, Val(override)) ]
                        /\ UNCHANGED dict_heap
                   ELSE /\ dict_heap' =
                              [ dict_heap EXCEPT ![frame[t].overrides] =
                                  Put(@, Val(tag_key), Val(override)) ]
                        /\ UNCHANGED settings_heap
                /\ UNCHANGED pc
    /\ UNCHANGED << files, store, config_heap, built, callers >>

\* an exception of open() or of the reader that nothing catches: it leaves load and
\* get_tag_configuration, whose with block releases the lock
ReadFailsPropagating(t) ==
    /\ \/ pc[t] = "L153" /\ config_file # None
       \/ pc[t] = "L159"
    /\ frame' = [ frame EXCEPT ![t] = NoFrame ]
    /\ pc' = [ pc EXCEPT ![t] = "idle" ]
    /\ _CONFIG_LOCK' = 0
    /\ UNCHANGED << files, _CONFIG_CACHE, heaps, callers >>

\* Lines 167-168: open() or the reader raises (at the header or at any row, the
\* rows not yet read being lost); the exception is logged and load goes on.
ReadFails(t) ==
    /\ \/ pc[t] = "L153" /\ config_file # None
       \/ pc[t] = "L159"
    /\ frame' = [ frame EXCEPT ![t].reader = <<>>, ![t].failed = TRUE ]
    /\ pc' = [ pc EXCEPT ![t] = "L170" ]
    /\ UNCHANGED << files, store, heaps, callers >>

\* Lines 170-175: build the TagConfiguration and return it.  (Its source_path is
\* the same path in every load and is left out.)
LoadReturn(t) ==
    /\ pc[t] = "L170"
    /\ config_heap' = Append(config_heap,
                             [ global_settings |-> frame[t].global_settings,
                               overrides |-> frame[t].overrides,
                               tag_suffix |-> frame[t].tag_suffix ])
    /\ built' = Append(built,
                       [ rows |-> frame[t].rows,
                         failed |-> frame[t].failed,
                         reload |-> reload[t],
                         global_settings |-> settings_heap[frame[t].global_settings],
                         overrides |-> dict_heap[frame[t].overrides],
                         tag_suffix |-> frame[t].tag_suffix ])
    /\ frame' = [ frame EXCEPT ![t].result = Len(config_heap) + 1 ]
    /\ pc' = [ pc EXCEPT ![t] = "assign" ]
    /\ UNCHANGED << files, store, settings_heap, dict_heap, callers >>

(***************************************************************************)
(* get_tag_configuration(reload), a step at a time.                        *)
(***************************************************************************)
\* Line 184: the call, and the branch on its argument.
Call(t, r) ==
    /\ pc[t] = "idle"
    /\ calls_left > 0
    /\ calls_left' = calls_left - 1
    /\ reload' = [ reload EXCEPT ![t] = r ]
    /\ pc' = [ pc EXCEPT ![t] = IF r THEN "L185" ELSE "L188" ]
    /\ floor' = [ floor EXCEPT ![t] = last_reload ]
    /\ reload_requested' = (reload_requested \/ r)
    /\ saw_cache' = [ saw_cache EXCEPT ![t] = FALSE ]
    /\ took_lock' = [ took_lock EXCEPT ![t] = FALSE ]
    /\ UNCHANGED << files, store, heaps, frame, returned, resolved, last_reload >>

\* a reload that does not wait for the lock
AcquireReloadNoWait(t) ==
    /\ pc[t] = "L185"
    /\ _CONFIG_LOCK' = t
    /\ took_lock' = [ took_lock EXCEPT ![t] = TRUE ]
    /\ pc' = [ pc EXCEPT ![t] = "L186" ]
    /\ UNCHANGED << files, _CONFIG_CACHE, heaps, frame, reload, returned, resolved,
                    calls_left, floor, last_reload, reload_requested, saw_cache >>

\* a reload that unsets the cache before it loads
AcquireReloadClearing(t) ==
    /\ pc[t] = "L185"
    /\ _CONFIG_LOCK = 0
    /\ _CONFIG_LOCK' = t
    /\ _CONFIG_CACHE' = 0
    /\ took_lock' = [ took_lock EXCEPT ![t] = TRUE ]
    /\ pc' = [ pc EXCEPT ![t] = "L186" ]
    /\ UNCHANGED << files, heaps, frame, reload, returned, resolved,
                    calls_left, floor, last_reload, reload_requested, saw_cache >>

\* Line 185: with _CONFIG_LOCK.
AcquireReload(t) ==
    /\ pc[t] = "L185"
    /\ _CONFIG_LOCK = 0
    /\ _CONFIG_LOCK' = t
    /\ took_lock' = [ took_lock EXCEPT ![t] = TRUE ]
    /\ pc' = [ pc EXCEPT ![t] = "L186" ]
    /\ UNCHANGED << files, _CONFIG_CACHE, heaps, frame, reload, returned, resolved,
                    calls_left, floor, last_reload, reload_requested, saw_cache >>

\* an assignment that keeps a snapshot already cached
AssignFirstOnly(t) ==
    /\ pc[t] = "assign"
    /\ _CONFIG_CACHE' = IF _CONFIG_CACHE = 0 THEN frame[t].result ELSE _CONFIG_CACHE
    /\ pc' = [ pc EXCEPT ![t] = IF reload[t] THEN "L187" ELSE "exit" ]
    /\ UNCHANGED << files, _CONFIG_LOCK, heaps, frame, callers >>

\* Lines 186 and 191: _CONFIG_CACHE = <what load returned>.
Assign(t) ==
    /\ pc[t] = "assign"
    /\ _CONFIG_CACHE' = frame[t].result
    /\ pc' = [ pc EXCEPT ![t] = IF reload[t] THEN "L187" ELSE "exit" ]
    /\ UNCHANGED << files, _CONFIG_LOCK, heaps, frame, callers >>

\* Line 187: return _CONFIG_CACHE, leaving the with block.
ReturnLocked(t) ==
    /\ pc[t] = "L187"
    /\ returned' = [ returned EXCEPT ![t] = _CONFIG_CACHE ]
    /\ last_reload' = frame[t].result
    /\ _CONFIG_LOCK' = 0
    /\ frame' = [ frame EXCEPT ![t] = NoFrame ]
    /\ pc' = [ pc EXCEPT ![t] = "idle" ]
    /\ UNCHANGED << files, _CONFIG_CACHE, heaps, reload, resolved, calls_left,
                    floor, reload_requested, saw_cache, took_lock >>

\* Line 188: if _CONFIG_CACHE is None.
CheckCache(t) ==
    /\ pc[t] = "L188"
    /\ saw_cache' = [ saw_cache EXCEPT ![t] = (_CONFIG_CACHE # 0) ]
    /\ pc' = [ pc EXCEPT ![t] = IF _CONFIG_CACHE = 0 THEN "L189" ELSE "L192" ]
    /\ UNCHANGED << files, store, heaps, frame, reload, returned, resolved, calls_left,
                    floor, last_reload, reload_requested, took_lock >>

\* Line 189: with _CONFIG_LOCK.
AcquireLazy(t) ==
    /\ pc[t] = "L189"
    /\ _CONFIG_LOCK = 0
    /\ _CONFIG_LOCK' = t
    /\ took_lock' = [ took_lock EXCEPT ![t] = TRUE ]
    /\ pc' = [ pc EXCEPT ![t] = "L190" ]
    /\ UNCHANGED << files, _CONFIG_CACHE, heaps, frame, reload, returned, resolved,
                    calls_left, floor, last_reload, reload_requested, saw_cache >>

\* line 190 left out: whoever gets the lock loads
DoubleCheckSkipped(t) ==
    /\ pc[t] = "L190"
    /\ pc' = [ pc EXCEPT ![t] = "L191" ]
    /\ UNCHANGED << files, store, heaps, frame, callers >>

\* Line 190: if _CONFIG_CACHE is None, under the lock.
DoubleCheck(t) ==
    /\ pc[t] = "L190"
    /\ pc' = [ pc EXCEPT ![t] = IF _CONFIG_CACHE = 0 THEN "L191" ELSE "exit" ]
    /\ UNCHANGED << files, store, heaps, frame, callers >>

\* The end of the with block of line 189.
ExitWith(t) ==
    /\ pc[t] = "exit"
    /\ _CONFIG_LOCK' = 0
    /\ frame' = [ frame EXCEPT ![t] = NoFrame ]
    /\ pc' = [ pc EXCEPT ![t] = "L192" ]
    /\ UNCHANGED << files, _CONFIG_CACHE, heaps, callers >>

\* Line 192: return _CONFIG_CACHE.
Return(t) ==
    /\ pc[t] = "L192"
    /\ returned' = [ returned EXCEPT ![t] = _CONFIG_CACHE ]
    /\ pc' = [ pc EXCEPT ![t] = "idle" ]
    /\ UNCHANGED << files, store, heaps, frame, reload, resolved, calls_left,
                    floor, last_reload, reload_requested, saw_cache, took_lock >>

(***************************************************************************)
(* A caller resolves a tag name on the snapshot it was handed.             *)
(***************************************************************************)
\* resolve working on self._global_settings itself instead of on a clone
ResolveInPlace(t, tag_name) ==
    /\ pc[t] = "idle"
    /\ returned[t] # 0
    /\ resolved' = [ resolved EXCEPT ![t] =
                       Some([ config |-> returned[t],
                              tag_name |-> tag_name,
                              result |-> resolve(config_heap[returned[t]], tag_name),
                              again |-> (@ # None) ]) ]
    /\ settings_heap' = [ settings_heap EXCEPT ![config_heap[returned[t]].global_settings] =
                            resolve(config_heap[returned[t]], tag_name) ]
    /\ UNCHANGED << files, store, dict_heap, config_heap, built, pc, frame, reload,
                    returned, calls_left, floor, last_reload, reload_requested,
                    saw_cache, took_lock >>

Resolve(t, tag_name) ==
    /\ pc[t] = "idle"
    /\ returned[t] # 0
    /\ resolved' = [ resolved EXCEPT ![t] =
                       Some([ config |-> returned[t],
                              tag_name |-> tag_name,
                              result |-> resolve(config_heap[returned[t]], tag_name),
                              again |-> (@ # None) ]) ]
    /\ UNCHANGED << files, store, heaps, pc, frame, reload, returned, calls_left, floor,
                    last_reload, reload_requested, saw_cache, took_lock >>

(***************************************************************************)
(* The user rewrites the config file.                                      *)
(***************************************************************************)
\* an edit of the file that also unsets the cached reference, as a file watcher would
EditFileInvalidating(rows) ==
    /\ config_file # Some(rows)
    /\ config_file' = Some(rows)
    /\ _CONFIG_CACHE' = 0
    /\ UNCHANGED << template_file, plugin_setting, _CONFIG_LOCK, heaps, pc, frame, callers >>

EditFile(rows) ==
    /\ config_file # Some(rows)
    /\ config_file' = Some(rows)
    /\ UNCHANGED << template_file, plugin_setting, store, heaps, pc, frame, callers >>

(***************************************************************************)
(* Specifications.  Spec: one caller makes one get_tag_configuration call, *)
(* over every file of the row universe, and resolves tag names on the      *)
(* snapshot.  SpecStore: the threads call get_tag_configuration            *)
(* concurrently, with and without reload, while the file is rewritten; its *)
(* environment has no tag_suffix row and its reads of the file succeed.    *)
(* SpecDirect: a caller resolves tag names on a TagConfiguration that was  *)
(* constructed from given settings and overrides, among them overrides     *)
(* that no file yields (an empty-string stash_name or merge_strategy).     *)
(***************************************************************************)
InitProgram ==
    /\ _CONFIG_CACHE = 0
    /\ _CONFIG_LOCK = 0
    /\ settings_heap = <<>>
    /\ dict_heap = <<>>
    /\ config_heap = <<>>
    /\ built = <<>>
    /\ pc = [ t \in Threads |-> "idle" ]
    /\ reload = [ t \in Threads |-> FALSE ]
    /\ frame = [ t \in Threads |-> NoFrame ]
    /\ returned = [ t \in Threads |-> 0 ]
    /\ resolved = [ t \in Threads |-> None ]
    /\ floor = [ t \in Threads |-> 0 ]
    /\ last_reload = 0
    /\ reload_requested = FALSE
    /\ saw_cache = [ t \in Threads |-> FALSE ]
    /\ took_lock = [ t \in Threads |-> FALSE ]

\* The TagSettings, overrides dicts and suffixes a TagConfiguration is constructed
\* from when it is not loaded from a file.
sShared == <<"S","h","a","r","e","d">>

sblonde == <<"b","l","o","n","d","e">>

GivenSettings ==
    { _base_settings,
      [ _base_settings EXCEPT !.stash_name = Some(sShared),
                              !.max_gap = Some(5),
                              !.merge_strategy = <<"m","a","x">>,
                              !.merge_params = << Some(2), None, Some(9), None, None >> ],
      [ _base_settings EXCEPT !.tag_name = <<>>, !.merge_strategy = <<>> ] }

GivenOverrides ==
    { <<>>,
      Put(<<>>, sblonde, [ TagSettingsOverride EXCEPT !.stash_name = Some(<<>>) ]),
      Put(<<>>, sblonde, [ TagSettingsOverride EXCEPT
                             !.merge_params = << None, None, Some(4), None, None >> ]),
      Put(<<>>, sblonde, [ TagSettingsOverride EXCEPT
                             !.stash_name = Some(<<>>),
                             !.markers_enabled = Some(FALSE),
                             !.max_gap = Some(0),
                             !.merge_strategy = Some(<<>>),
                             !.merge_params = << Some(0), None, None, None, None >> ]),
      Put(<<>>, s__global__, [ TagSettingsOverride EXCEPT
                                 !.stash_name = Some(<<"R","o","o","t">>),
                                 !.image_enabled = Some(TRUE) ]) }

GivenSuffixes == { s_AI, <<>> }

\* TagConfiguration(source_path=..., global_settings=..., overrides=...,
\* tag_suffix=...), handed to the caller; nothing is cached.
InitDirect ==
    /\ \E global_settings \in GivenSettings, overrides \in GivenOverrides,
          tag_suffix \in GivenSuffixes :
          /\ settings_heap = << global_settings >>
          /\ dict_heap = << overrides >>
          /\ config_heap = << [ global_settings |-> 1, overrides |-> 1,
                                tag_suffix |-> tag_suffix ] >>
          /\ built = << [ rows |-> <<>>, failed |-> FALSE, reload |-> FALSE,
                          global_settings |-> global_settings,
                          overrides |-> overrides,
                          tag_suffix |-> tag_suffix ] >>
    /\ returned = [ t \in Threads |-> IF t = 1 THEN 1 ELSE 0 ]
    /\ config_file = None
    /\ template_file = None
    /\ plugin_setting = None
    /\ _CONFIG_CACHE = 0
    /\ _CONFIG_LOCK = 0
    /\ pc = [ t \in Threads |-> "idle" ]
    /\ reload = [ t \in Threads |-> FALSE ]
    /\ frame = [ t \in Threads |-> NoFrame ]
    /\ resolved = [ t \in Threads |-> None ]
    /\ calls_left = 0
    /\ floor = [ t \in Threads |-> 0 ]
    /\ last_reload = 0
    /\ reload_requested = FALSE
    /\ saw_cache = [ t \in Threads |-> FALSE ]
    /\ took_lock = [ t \in Threads |-> FALSE ]

Init ==
    /\ InitProgram
    /\ \/ config_file = None /\ template_file \in { None, Some(TemplateRows) }
       \/ config_file \in { Some(f) : f \in Files } /\ template_file = Some(TemplateRows)
    /\ plugin_setting \in PluginSettings
    /\ calls_left = 1

InitStore ==
    /\ InitProgram
    /\ config_file \in { Some(f) : f \in StoreFiles }
    /\ template_file = Some(TemplateRows)
    /\ plugin_setting = None
    /\ calls_left = MaxCalls

Step(t) ==
    \/ AcquireReload(t)
    \/ CheckCache(t)
    \/ AcquireLazy(t)
    \/ DoubleCheck(t)
    \/ LoadEnter(t)
    \/ Open(t)
    \/ ReadRow(t)
    \/ LoadReturn(t)
    \/ Assign(t)
    \/ ExitWith(t)
    \/ ReturnLocked(t)
    \/ Return(t)

Next ==
    \/ \E r \in BOOLEAN : Call(1, r)
    \/ Step(1)
    \/ ReadFails(1)
    \/ \E tag_name \in TagNames : Resolve(1, tag_name)

NextStore ==
    \/ \E t \in Threads, r \in BOOLEAN : Call(t, r)
    \/ \E t \in Threads : Step(t)
    \/ \E rows \in StoreFiles : EditFile(rows)

NextDirect == \E tag_name \in TagNames : Resolve(1, tag_name)

Spec == Init /\ [][Next]_vars

SpecStore == InitStore /\ [][NextStore]_vars

SpecDirect == InitDirect /\ [][NextDirect]_vars

(***************************************************************************)
(* What the claims speak of.                                               *)
(***************************************************************************)
\* the TagConfiguration a resolve call was made on, and the history of its load
ConfigOf(r) == config_heap[r.config]

LoadOf(r) == built[r.config]

\* the snapshot's global baseline and overrides mapping, as they are now
GlobalOf(config) == settings_heap[config.global_settings]

OverridesOf(config) == dict_heap[config.overrides]

\* equal in every field but tag_name
SameSettings(a, b) == [ a EXCEPT !.tag_name = <<>> ] = [ b EXCEPT !.tag_name = <<>> ]

\* the built-in defaults with all default rows of the file applied, in file order
RECURSIVE DefaultsApplied(_)
DefaultsApplied(rows) ==
    IF rows = <<>> THEN _base_settings
    ELSE LET parsed == _parse_row(DictReaderRow(rows[Len(rows)]))
             before == DefaultsApplied(SubSeq(rows, 1, Len(rows) - 1))
         IN  IF parsed[2] # None /\ parsed[1] = None
             THEN _apply_override(before, Val(parsed[2]))
             ELSE before

\* the override the file stores for a key: that of the last row with this key
RECURSIVE StoredOverride(_, _)
StoredOverride(rows, key) ==
    IF rows = <<>> THEN None
    ELSE LET parsed == _parse_row(DictReaderRow(rows[Len(rows)]))
         IN  IF parsed[2] # None /\ parsed[1] = Some(key)
             THEN parsed[2]
             ELSE StoredOverride(SubSeq(rows, 1, Len(rows) - 1), key)

\* defaults, then the default rows, then the override stored for the key
Layered(rows, key) ==
    IF StoredOverride(rows, key) # None
    THEN _apply_override(DefaultsApplied(rows), Val(StoredOverride(rows, key)))
    ELSE DefaultsApplied(rows)

\* the fallbacks, deriving a missing stash_name from `name`
WithFallbacks(settings, name, suffix) ==
    [ settings EXCEPT
        !.stash_name = IF @ = None THEN Some(IF name # <<>> THEN name \o suffix ELSE <<>>)
                       ELSE @,
        !.merge_strategy = IF @ = <<>> THEN sdefault ELSE @ ]

sBlonde_AI == <<"B","l","o","n","d","e","_","A","I">>

(***************************************************************************)
(* C1 (as amended: the derived stash_name is trim(t) + suffix, and the     *)
(* empty string when trim(t) is empty).  For a file read to its end, and   *)
(* every tag name t, resolve(t) equals, in its settings fields, the        *)
(* built-in defaults with all default rows applied in file order, then the *)
(* override stored for lower(trim(t)), then the fallbacks.  The scenario   *)
(* `*, MarkersEnabled=false` then `Blonde, ImageEnabled=true` gives        *)
(* markers_enabled=false, image_enabled=true, stash_name="Blonde_AI",      *)
(* merge_strategy="default".                                               *)
(***************************************************************************)
C1_ResolveIsLayered ==
    \A t \in Threads :
        (resolved[t] # None /\ ~LoadOf(Val(resolved[t])).failed) =>
            LET r == Val(resolved[t])
                load == LoadOf(r)
                name == strip(r.tag_name)
            IN  /\ SameSettings(r.result,
                                WithFallbacks(Layered(load.rows, lower(name)),
                                              name, load.tag_suffix))
                /\ ( /\ load.rows = << rowStar, rowBlonde >>
                     /\ r.tag_name = sBlonde
                     /\ load.tag_suffix = s_AI )
                   => /\ r.result.markers_enabled = FALSE
                      /\ r.result.image_enabled = TRUE
                      /\ r.result.stash_name = Some(sBlonde_AI)
                      /\ r.result.merge_strategy = sdefault

\* The default row comes after the tag's row and is inherited all the same.
C1_Witness ==
    \E t \in Threads :
        /\ resolved[t] # None
        /\ ~LoadOf(Val(resolved[t])).failed
        /\ LoadOf(Val(resolved[t])).rows = << rowBlonde, rowStar >>
        /\ Val(resolved[t]).tag_name = sBlonde
        /\ Val(resolved[t]).result.markers_enabled = FALSE
        /\ Val(resolved[t]).result.image_enabled = TRUE

\* C1 as stated: the derived stash_name is t + suffix, for every non-empty t.
C1_Original ==
    \A t \in Threads :
        ( /\ resolved[t] # None
          /\ ~LoadOf(Val(resolved[t])).failed
          /\ Val(resolved[t]).tag_name # <<>> ) =>
            LET r == Val(resolved[t])
                load == LoadOf(r)
                layered == Layered(load.rows, lower(strip(r.tag_name)))
            IN  SameSettings(r.result,
                             [ layered EXCEPT
                                 !.stash_name = IF @ = None
                                                THEN Some(r.tag_name \o load.tag_suffix)
                                                ELSE @,
                                 !.merge_strategy = IF @ = <<>> THEN sdefault ELSE @ ])

\* the override resolve(t) looks up, or None
LookedUp(r) ==
    IF strip(r.tag_name) # <<>> /\ lower(strip(r.tag_name)) \in DOMAIN OverridesOf(ConfigOf(r))
    THEN Some(OverridesOf(ConfigOf(r))[lower(strip(r.tag_name))])
    ELSE None

\* the fields other than stash_name
OtherFieldsFollowOverride(result, base, o) ==
    /\ result.markers_enabled =
           IF o.markers_enabled # None THEN Val(o.markers_enabled) ELSE base.markers_enabled
    /\ result.scene_tag_enabled =
           IF o.scene_tag_enabled # None THEN Val(o.scene_tag_enabled)
           ELSE base.scene_tag_enabled
    /\ result.image_enabled =
           IF o.image_enabled # None THEN Val(o.image_enabled) ELSE base.image_enabled
    /\ result.required_scene_tag_duration =
           IF o.required_scene_tag_duration # None THEN o.required_scene_tag_duration
           ELSE base.required_scene_tag_duration
    /\ result.min_marker_duration =
           IF o.min_marker_duration # None THEN o.min_marker_duration
           ELSE base.min_marker_duration
    /\ result.max_gap = IF o.max_gap # None THEN o.max_gap ELSE base.max_gap
    /\ result.merge_strategy =
           IF o.merge_strategy # None THEN Val(o.merge_strategy) ELSE base.merge_strategy
    /\ \A idx \in 1..5 :
           result.merge_params[idx] =
               IF o.merge_params[idx] # None THEN o.merge_params[idx]
               ELSE base.merge_params[idx]

(***************************************************************************)
(* C2 (as amended: a stash_name that both the override and the baseline    *)
(* leave null is derived as trim(t) + suffix).  For a resolve call whose   *)
(* tag has a stored override: a field the override sets wins over the      *)
(* global baseline, boolean false and numeric 0 included, and a field it   *)
(* leaves null keeps the baseline's value.                                 *)
(***************************************************************************)
C2_OverridePrecedence ==
    \A t \in Threads :
        (resolved[t] # None /\ LookedUp(Val(resolved[t])) # None) =>
            LET r == Val(resolved[t])
                base == GlobalOf(ConfigOf(r))
                o == Val(LookedUp(r))
            IN  /\ OtherFieldsFollowOverride(r.result, base, o)
                /\ r.result.stash_name =
                       IF o.stash_name # None THEN o.stash_name
                       ELSE IF base.stash_name # None THEN base.stash_name
                       ELSE Some(strip(r.tag_name) \o ConfigOf(r).tag_suffix)

\* An override's false replaces a true baseline, and its 0 a non-zero one.
C2_Witness ==
    \E t \in Threads :
        /\ resolved[t] # None
        /\ LookedUp(Val(resolved[t])) # None
        /\ LET r == Val(resolved[t])
               base == GlobalOf(ConfigOf(r))
               o == Val(LookedUp(r))
           IN  \/ /\ base.max_gap = Some(5)
                  /\ o.max_gap = Some(0)
                  /\ r.result.max_gap = Some(0)
                  /\ o.markers_enabled = None
                  /\ r.result.markers_enabled = base.markers_enabled
               \/ /\ base.markers_enabled = TRUE
                  /\ o.markers_enabled = Some(FALSE)
                  /\ r.result.markers_enabled = FALSE
                  /\ base.max_gap = Some(5)
                  /\ o.max_gap = None
                  /\ r.result.max_gap = Some(5)

\* C2 as stated: for every field, stash_name too, a null override field leaves
\* the resolved value equal to the baseline's.
C2_Original ==
    \A t \in Threads :
        (resolved[t] # None /\ LookedUp(Val(resolved[t])) # None) =>
            LET r == Val(resolved[t])
                base == GlobalOf(ConfigOf(r))
                o == Val(LookedUp(r))
            IN  /\ OtherFieldsFollowOverride(r.result, base, o)
                /\ r.result.stash_name =
                       IF o.stash_name # None THEN o.stash_name ELSE base.stash_name

(***************************************************************************)
(* C3.  For every snapshot load builds, whatever the rows and the suffix,  *)
(* and every tag name t: resolve(t).merge_strategy is non-empty, and       *)
(* resolve(t).stash_name is non-empty whenever t trimmed is non-empty.     *)
(***************************************************************************)
C3_ResolvedNamesNonEmpty ==
    \A t \in Threads :
        resolved[t] # None =>
            LET r == Val(resolved[t])
            IN  /\ r.result.merge_strategy # <<>>
                /\ strip(r.tag_name) # <<>> =>
                       /\ r.result.stash_name # None
                       /\ Val(r.result.stash_name) # <<>>

\* The suffix is the empty string and the stash_name is derived.
C3_Witness ==
    \E t \in Threads :
        /\ resolved[t] # None
        /\ ConfigOf(Val(resolved[t])).tag_suffix = <<>>
        /\ GlobalOf(ConfigOf(Val(resolved[t]))).stash_name = None
        /\ LookedUp(Val(resolved[t])) = None
        /\ Val(resolved[t]).result.stash_name = Some(sBlonde)

(***************************************************************************)
(* C4.  resolve never mutates the snapshot: after any resolve calls the    *)
(* snapshot's global baseline, overrides mapping and suffix are what load  *)
(* built, so resolving the same name again gives a result identical to the *)
(* one returned before.                                                    *)
(***************************************************************************)
C4_ResolveLeavesSnapshot ==
    \A t \in Threads :
        resolved[t] # None =>
            LET r == Val(resolved[t])
            IN  /\ GlobalOf(ConfigOf(r)) = LoadOf(r).global_settings
                /\ OverridesOf(ConfigOf(r)) = LoadOf(r).overrides
                /\ ConfigOf(r).tag_suffix = LoadOf(r).tag_suffix
                /\ resolve(ConfigOf(r), r.tag_name) = r.result

\* A second resolve call on the snapshot, one that applied an override.
C4_Witness ==
    \E t \in Threads :
        /\ resolved[t] # None
        /\ Val(resolved[t]).again
        /\ LookedUp(Val(resolved[t])) # None
        /\ Val(resolved[t]).result # GlobalOf(ConfigOf(Val(resolved[t])))

(***************************************************************************)
(* C5.  If an exception occurs while the config file is opened, read or    *)
(* parsed, at any row, load returns a snapshot whose global baseline is    *)
(* the built-in defaults and whose overrides mapping is empty.             *)
(***************************************************************************)
C5_FailedLoadYieldsDefaults ==
    \A c \in 1..Len(built) :
        built[c].failed =>
            /\ built[c].global_settings = _base_settings
            /\ built[c].overrides = <<>>

(***************************************************************************)
(* The store.                                                              *)
(***************************************************************************)
\* the thread has completed a call and made no other since
Completed(t) == pc[t] = "idle" /\ (took_lock[t] \/ saw_cache[t])

\* the lines of get_tag_configuration inside a with block, load included
Locked == { "L186", "L187", "L190", "L191", "exit" } \cup InLoad

\* the threads inside TagConfiguration.load, still filling their accumulators
Loading == { t \in Threads : pc[t] \in { "L153", "L159", "L170" } }

\* what the snapshot holds now is what it held when load built it
Unchanged(c) ==
    /\ GlobalOf(config_heap[c]) = built[c].global_settings
    /\ OverridesOf(config_heap[c]) = built[c].overrides
    /\ config_heap[c].tag_suffix = built[c].tag_suffix

(***************************************************************************)
(* C6.  Once a get_tag_configuration(reload=true) call has completed,      *)
(* every plain call that starts afterwards returns the snapshot loaded by  *)
(* that reload or by a later reload, never one cached before it.  (Loads   *)
(* are numbered in the order they build their snapshots.)                  *)
(***************************************************************************)
C6_PlainAfterReload ==
    \A t \in Threads :
        (Completed(t) /\ ~reload[t] /\ floor[t] # 0) =>
            /\ returned[t] >= floor[t]
            /\ returned[t] \in 1..Len(built)
            /\ built[returned[t]].reload

\* A plain call that started after a reload replaced an earlier snapshot.
C6_Witness ==
    \E t \in Threads :
        /\ Completed(t)
        /\ ~reload[t]
        /\ floor[t] > 1
        /\ returned[t] = floor[t]
        /\ saw_cache[t]

(***************************************************************************)
(* C7.  While no reload has been requested, in every interleaving of plain *)
(* calls from an empty cache, TagConfiguration.load is executed at most    *)
(* once, exactly once when a call has returned, and every call returns     *)
(* that snapshot.                                                          *)
(***************************************************************************)
C7_LazyInitLoadsOnce ==
    ~reload_requested =>
        /\ Len(settings_heap) <= 1
        /\ \A t \in Threads :
               Completed(t) => /\ Len(config_heap) = 1
                               /\ returned[t] = 1

\* Two plain calls both found the cache empty and both returned the one snapshot.
C7_Witness ==
    /\ ~reload_requested
    /\ \E t, u \in Threads :
          /\ t # u
          /\ Completed(t) /\ took_lock[t] /\ returned[t] = 1
          /\ Completed(u) /\ took_lock[u] /\ returned[u] = 1

(***************************************************************************)
(* C8.  At most one thread at a time is inside a with block, executing     *)
(* load or writing the cached reference, and it holds the lock; a plain    *)
(* call that finds a snapshot at line 188 goes to its return without ever  *)
(* acquiring or waiting on the lock.                                       *)
(***************************************************************************)
C8_LoadsSerialised ==
    /\ \A t, u \in Threads : (pc[t] \in Locked /\ pc[u] \in Locked) => t = u
    /\ \A t \in Threads : pc[t] \in Locked => _CONFIG_LOCK = t
    /\ \A t \in Threads :
           saw_cache[t] => /\ ~took_lock[t]
                           /\ pc[t] \in { "L192", "idle" }

\* A plain call is on its lock-free path while another thread's reload is in load.
C8_Witness ==
    \E t, u \in Threads :
        /\ t # u
        /\ saw_cache[t]
        /\ pc[t] = "L192"
        /\ reload[u]
        /\ u \in Loading
        /\ _CONFIG_LOCK = u

\* a snapshot that a finished load built and that no load is still filling
Whole(c) ==
    /\ c \in 1..Len(config_heap)
    /\ \A t \in Loading :
           /\ frame[t].global_settings # config_heap[c].global_settings
           /\ frame[t].overrides # config_heap[c].overrides

(***************************************************************************)
(* C9.  The cache is either unset or refers to a snapshot that a finished  *)
(* load built, which no load is still filling; once set it never becomes   *)
(* unset; a completed call has returned such a snapshot.                   *)
(***************************************************************************)
C9_CacheSwappedWhole ==
    /\ [](_CONFIG_CACHE # 0 => Whole(_CONFIG_CACHE))
    /\ [][_CONFIG_CACHE # 0 => _CONFIG_CACHE' # 0]_vars
    /\ [](\A t \in Threads : Completed(t) => Whole(returned[t]))

\* The cache holds a reload's snapshot while another reload is filling the next.
C9_Witness ==
    /\ _CONFIG_CACHE # 0
    /\ built[_CONFIG_CACHE].reload
    /\ \E t \in Loading : reload[t] /\ frame[t].global_settings > 1
    /\ \E t \in Threads : Completed(t) /\ returned[t] = _CONFIG_CACHE

(***************************************************************************)
(* C10.  Each load accumulates into objects of its own, so a snapshot      *)
(* handed to a caller holds the same global baseline, overrides mapping    *)
(* and suffix after any later load or reload, while the store moves on to  *)
(* another snapshot.                                                       *)
(***************************************************************************)
C10_SnapshotsSuperseded ==
    /\ \A t \in Threads : returned[t] # 0 => Unchanged(returned[t])
    /\ \A c, d \in 1..Len(config_heap) :
           c # d => /\ config_heap[c].global_settings # config_heap[d].global_settings
                    /\ config_heap[c].overrides # config_heap[d].overrides

\* A caller holds a snapshot that a reload has since superseded by a different one.
C10_Witness ==
    \E t \in Threads :
        /\ returned[t] # 0
        /\ _CONFIG_CACHE > returned[t]
        /\ built[_CONFIG_CACHE].reload
        /\ Unchanged(returned[t])
        /\ OverridesOf(config_heap[_CONFIG_CACHE]) # OverridesOf(config_heap[returned[t]])
        /\ GlobalOf(config_heap[_CONFIG_CACHE]) # GlobalOf(config_heap[returned[t]])

(***************************************************************************)
(* C11.  Once the cache is set, the cached reference changes only in the   *)
(* assignment of a get_tag_configuration(reload=true) call; every snapshot *)
(* but the first is built by a reload; and until a reload is requested,    *)
(* plain calls return the first snapshot, also when the config file has    *)
(* been rewritten since it was loaded.                                     *)
(***************************************************************************)
C11_NoAutomaticInvalidation ==
    /\ [][ (_CONFIG_CACHE # 0 /\ _CONFIG_CACHE' # _CONFIG_CACHE) =>
              \E t \in Threads : /\ reload[t]
                                 /\ pc[t] = "assign"
                                 /\ _CONFIG_CACHE' = frame[t].result ]_vars
    /\ [](\A c \in 1..Len(built) : ~built[c].reload => c = 1)
    /\ [](~reload_requested =>
             /\ _CONFIG_CACHE \in {0, 1}
             /\ \A t \in Threads : Completed(t) => returned[t] = 1)

\* A plain call found the cache set and returned the first snapshot, which the
\* file no longer matches; two plain calls have returned it.
C11_Witness ==
    /\ ~reload_requested
    /\ \E t, u \in Threads :
          /\ t # u
          /\ Completed(t) /\ saw_cache[t] /\ returned[t] = 1
          /\ Completed(u) /\ returned[u] = 1
          /\ config_file # Some(built[1].rows)
          /\ _CONFIG_CACHE = 1

(***************************************************************************)
(* The rows of a file, read without the parser: whether a row is blank,    *)
(* its tag cell (the first column, trimmed), and whether the tag cell is   *)
(* one of the markers of a default row.                                    *)
(***************************************************************************)
AllBlank(cells) == \A i \in 1..Len(cells) : strip(cells[i]) = <<>>

TagCell(cells) == strip(cells[1])

MarkerTexts ==
    { <<>>, <<"*">>, <<"d","e","f","a","u","l","t">>,
      <<"_","_","d","e","f","a","u","l","t","_","_">> }

\* the override a non-blank row carries
OverrideOf(cells) == Val(_parse_row(DictReaderRow(cells))[2])

\* the rows that target a key, and those that target the global baseline
RowsFor(rows, key) ==
    { i \in 1..Len(rows) : /\ ~AllBlank(rows[i])
                           /\ TagCell(rows[i]) \notin MarkerTexts
                           /\ lower(TagCell(rows[i])) = key }

DefaultRows(rows) ==
    { i \in 1..Len(rows) : ~AllBlank(rows[i]) /\ TagCell(rows[i]) \in MarkerTexts }

Last(S) == CHOOSE i \in S : \A j \in S : j <= i

scat == <<"c","a","t">>

schain == <<"c","h","a","i","n">>

(***************************************************************************)
(* C12.  In a snapshot loaded from a file read to its end, the override    *)
(* stored for a key is exactly the override of the last row whose tag,     *)
(* trimmed and lower-cased, is that key: after the rows " Cat " and "CAT"  *)
(* the key "cat" holds what the CAT row sets and nothing of the Cat row.   *)
(***************************************************************************)
C12_LastTagRowWinsWhole ==
    \A c \in 1..Len(built) :
        ~built[c].failed =>
            /\ \A key \in DOMAIN built[c].overrides :
                   /\ RowsFor(built[c].rows, key) # {}
                   /\ built[c].overrides[key] =
                          OverrideOf(built[c].rows[Last(RowsFor(built[c].rows, key))])
            /\ built[c].rows = << rowCat, rowCAT >> =>
                   /\ DOMAIN built[c].overrides = { scat }
                   /\ built[c].overrides[scat] =
                          [ TagSettingsOverride EXCEPT !.markers_enabled = Some(FALSE),
                                                       !.merge_strategy = Some(schain) ]

\* The Cat row set stash_name, image_enabled, max_gap and a merge parameter; the
\* CAT row that follows leaves them empty.
C12_Witness ==
    \E c \in 1..Len(built) :
        /\ ~built[c].failed
        /\ built[c].rows = << rowCat, rowCAT >>
        /\ OverrideOf(rowCat).stash_name # None
        /\ OverrideOf(rowCat).merge_params[1] # None
        /\ built[c].overrides[scat].stash_name = None
        /\ built[c].overrides[scat].merge_params[1] = None

\* the value the last default row that sets field f gives it, or None
LastDefault(rows, f) ==
    LET setters == { i \in DefaultRows(rows) : OverrideOf(rows[i])[f] # None }
    IN  IF setters = {} THEN None ELSE OverrideOf(rows[Last(setters)])[f]

\* the same for a position of merge_params
LastDefaultParam(rows, idx) ==
    LET setters == { i \in DefaultRows(rows) : OverrideOf(rows[i]).merge_params[idx] # None }
    IN  IF setters = {} THEN None ELSE OverrideOf(rows[Last(setters)]).merge_params[idx]

(***************************************************************************)
(* C13.  In a snapshot loaded from a file read to its end, each field of   *)
(* the global baseline, and each position of its merge_params, holds the   *)
(* value of the last default row that set it, and the built-in default     *)
(* when no default row set it: a value set by an earlier default row       *)
(* survives later default rows that leave the field empty.                 *)
(***************************************************************************)
C13_DefaultRowsCumulative ==
    \A c \in 1..Len(built) :
        ~built[c].failed =>
            LET rows == built[c].rows
                global == built[c].global_settings
            IN  /\ \A f \in { "stash_name", "required_scene_tag_duration",
                               "min_marker_duration", "max_gap" } :
                       global[f] = IF LastDefault(rows, f) = None THEN _base_settings[f]
                                   ELSE LastDefault(rows, f)
                /\ \A f \in { "markers_enabled", "scene_tag_enabled", "image_enabled",
                               "merge_strategy" } :
                       global[f] = IF LastDefault(rows, f) = None THEN _base_settings[f]
                                   ELSE Val(LastDefault(rows, f))
                /\ \A idx \in 1..5 :
                       global.merge_params[idx] = LastDefaultParam(rows, idx)
                /\ global.tag_name = s__global__

\* The second default row changes markers_enabled and leaves in place what the
\* first set.
C13_Witness ==
    \E c \in 1..Len(built) :
        /\ ~built[c].failed
        /\ built[c].rows = << rowShared, rowStar >>
        /\ built[c].global_settings.markers_enabled = FALSE
        /\ built[c].global_settings.image_enabled = TRUE
        /\ built[c].global_settings.max_gap = Some(5)
        /\ built[c].global_settings.stash_name = Some(<<"S","h","a","r","e","d">>)
        /\ built[c].global_settings.merge_params = << Some(2), None, Some(9), None, None >>

\* the positions of merge_params an override sets
SetPositions(o) == { idx \in 1..5 : o.merge_params[idx] # None }

ScalarFields ==
    { "stash_name", "markers_enabled", "scene_tag_enabled", "image_enabled",
      "required_scene_tag_duration", "min_marker_duration", "max_gap", "merge_strategy" }

(***************************************************************************)
(* C14.  Applying an override that sets exactly one position of            *)
(* merge_params changes that position of the base and leaves the other     *)
(* four positions, and every scalar field the override leaves null, as     *)
(* they were in the base; merge_params always has 5 positions.             *)
(***************************************************************************)
C14_MergeParamsPositional ==
    \A t \in Threads :
        resolved[t] # None =>
            LET r == Val(resolved[t])
                base == GlobalOf(ConfigOf(r))
            IN  /\ DOMAIN r.result.merge_params = 1..5
                /\ (LookedUp(r) # None /\ Cardinality(SetPositions(Val(LookedUp(r)))) = 1) =>
                       LET o == Val(LookedUp(r))
                           applied == _apply_override(base, o)
                       IN  /\ DOMAIN applied.merge_params = 1..5
                           /\ \A idx \in 1..5 :
                                  applied.merge_params[idx] =
                                      IF idx \in SetPositions(o) THEN o.merge_params[idx]
                                      ELSE base.merge_params[idx]
                           /\ \A f \in ScalarFields : o[f] = None => applied[f] = base[f]
                           /\ applied.tag_name = base.tag_name
                           /\ r.result.merge_params = applied.merge_params

\* Position 3 is overridden over a base that has positions 1 and 3 set.
C14_Witness ==
    \E t \in Threads :
        /\ resolved[t] # None
        /\ LookedUp(Val(resolved[t])) # None
        /\ SetPositions(Val(LookedUp(Val(resolved[t])))) = {3}
        /\ GlobalOf(ConfigOf(Val(resolved[t]))).merge_params
               = << Some(2), None, Some(9), None, None >>
        /\ Val(resolved[t]).result.merge_params = << Some(2), None, Some(4), None, None >>
        /\ Val(resolved[t]).result.max_gap = Some(5)

(***************************************************************************)
(* C15.  A row whose cells are all empty or whitespace yields no fragment, *)
(* and the iteration of load that reads it leaves the accumulating global  *)
(* baseline and the overrides mapping as they were.                        *)
(***************************************************************************)
C15_BlankRowSkipped ==
    [][ \A t \in Threads :
          ( /\ pc[t] = "L159"
            /\ pc'[t] = "L159"
            /\ frame[t].reader # <<>>
            /\ AllBlank(Head(frame[t].reader)) ) =>
              /\ _parse_row(DictReaderRow(Head(frame[t].reader))) = << None, None >>
              /\ settings_heap' = settings_heap
              /\ dict_heap' = dict_heap ]_vars

\* The blank row was read after a row that stored an override, which is still there.
C15_Witness ==
    \E c \in 1..Len(built) :
        /\ ~built[c].failed
        /\ built[c].rows = << rowCat, rowBlank >>
        /\ AllBlank(rowBlank)
        /\ DOMAIN built[c].overrides = { scat }
        /\ built[c].overrides[scat] = OverrideOf(rowCat)
        /\ built[c].global_settings = _base_settings

\* the tag cells of the rows that do not target the global baseline
TaggedRows(rows) ==
    { i \in 1..Len(rows) : ~AllBlank(rows[i]) /\ TagCell(rows[i]) \notin MarkerTexts }

\* the built-in defaults with the overrides of the rows that target the global
\* baseline applied in file order
RECURSIVE GlobalFrom(_)
GlobalFrom(rows) ==
    IF rows = <<>> THEN _base_settings
    ELSE LET before == GlobalFrom(SubSeq(rows, 1, Len(rows) - 1))
         IN  IF Len(rows) \in DefaultRows(rows)
             THEN _apply_override(before, OverrideOf(rows[Len(rows)]))
             ELSE before

(***************************************************************************)
(* C16.  In a snapshot loaded from a file read to its end, the rows that   *)
(* changed the global baseline are the non-blank rows whose trimmed tag    *)
(* cell is empty, "*", "default" or "__default__", spelled exactly so, and *)
(* every other non-blank row is stored under its lower-cased tag: a row    *)
(* tagged "Default" is stored under the key "default" and leaves the       *)
(* baseline alone.                                                         *)
(***************************************************************************)
C16_RowTargeting ==
    \A c \in 1..Len(built) :
        ~built[c].failed =>
            LET rows == built[c].rows
            IN  /\ DOMAIN built[c].overrides =
                       { lower(TagCell(rows[i])) : i \in TaggedRows(rows) }
                /\ built[c].global_settings = GlobalFrom(rows)
                /\ rows = << rowDefaultCased >> =>
                       /\ DOMAIN built[c].overrides = { sdefault }
                       /\ built[c].global_settings = _base_settings

\* A row tagged "Default" and a row tagged "default": the first is stored as the
\* override of the key "default", the second changes the baseline.
C16_Witness ==
    \E c \in 1..Len(built) :
        /\ ~built[c].failed
        /\ built[c].rows = << rowDefaultCased, rowDefault >>
        /\ DOMAIN built[c].overrides = { sdefault }
        /\ built[c].overrides[sdefault].markers_enabled = Some(FALSE)
        /\ built[c].global_settings.markers_enabled = TRUE
        /\ built[c].global_settings.image_enabled = TRUE

(***************************************************************************)
(* C17 (as amended: the baseline's tag_name only names the result).        *)
(* resolve with an empty or whitespace-only tag name returns the global    *)
(* baseline under the baseline's own tag_name: no override is applied, not *)
(* even one stored under that tag_name's lower-cased key, and a stash_name *)
(* the baseline leaves unset is the empty string; an empty merge_strategy  *)
(* becomes "default".                                                      *)
(***************************************************************************)
C17_EmptyNameResolve ==
    \A t \in Threads :
        (resolved[t] # None /\ strip(Val(resolved[t]).tag_name) = <<>>) =>
            LET r == Val(resolved[t])
                base == GlobalOf(ConfigOf(r))
            IN  r.result =
                    [ base EXCEPT
                        !.stash_name = IF @ = None \/ Val(@) = <<>> THEN Some(<<>>) ELSE @,
                        !.merge_strategy = IF @ = <<>> THEN sdefault ELSE @ ]

\* A whitespace-only name is resolved on a snapshot that stores an override under
\* the baseline's tag_name.
C17_Witness ==
    \E t \in Threads :
        /\ resolved[t] # None
        /\ Val(resolved[t]).tag_name = <<" ">>
        /\ GlobalOf(ConfigOf(Val(resolved[t]))).tag_name = s__global__
        /\ s__global__ \in DOMAIN OverridesOf(ConfigOf(Val(resolved[t])))
        /\ ConfigOf(Val(resolved[t])).tag_suffix = s_AI
        /\ Val(resolved[t]).result.tag_name = s__global__
        /\ Val(resolved[t]).result.stash_name = Some(<<>>)
        /\ Val(resolved[t]).result.image_enabled = FALSE

\* C17 as stated: the baseline's tag_name is the effective name of every later
\* step, the override lookup and the stash_name derivation included.
C17_Original ==
    \A t \in Threads :
        (resolved[t] # None /\ strip(Val(resolved[t]).tag_name) = <<>>) =>
            LET r == Val(resolved[t])
                base == GlobalOf(ConfigOf(r))
                effective == base.tag_name
                overrides == OverridesOf(ConfigOf(r))
                overridden == IF effective # <<>> /\ lower(effective) \in DOMAIN overrides
                              THEN _apply_override(base, overrides[lower(effective)])
                              ELSE base
            IN  r.result =
                    [ overridden EXCEPT
                        !.stash_name =
                            IF @ = None \/ Val(@) = <<>>
                            THEN Some(IF effective # <<>>
                                      THEN effective \o ConfigOf(r).tag_suffix
                                      ELSE <<>>)
                            ELSE @,
                        !.merge_strategy = IF @ = <<>> THEN sdefault ELSE @ ]

\* a TagSettings, every field of its declared type
IsTagSettings(x) ==
    /\ DOMAIN x = DOMAIN _base_settings
    /\ \A f \in { "markers_enabled", "scene_tag_enabled", "image_enabled" } :
           x[f] \in BOOLEAN
    /\ \A f \in { "stash_name", "required_scene_tag_duration", "min_marker_duration",
                   "max_gap" } : Len(x[f]) <= 1
    /\ DOMAIN x.merge_params = 1..5
    /\ \A idx \in 1..5 : Len(x.merge_params[idx]) <= 1

\* how far a thread is into its load: it grows with every line, and within the
\* loop of line 159 the rows left to read shrink
InLoadOrEntering == { "L186", "L191", "L153", "L159", "L170" }

LoadRank(t) ==
    CASE pc[t] \in { "L186", "L191" } -> 1
      [] pc[t] = "L153" -> 2
      [] pc[t] = "L159" -> 3
      [] pc[t] = "L170" -> 4
      [] OTHER -> 5

(***************************************************************************)
(* C18.  Whatever fails (the suffix lookup, the config file or the         *)
(* template being absent, the copy of the template, the read of the file   *)
(* at any row), load ends by returning a TagConfiguration: a thread inside *)
(* load always has a next step (in the loop of line 159, the row to read   *)
(* parses into a key and an override, or into no fragment), every step     *)
(* takes it nearer to the return of line 170, and it leaves load only      *)
(* through that return.  And every resolve call on a snapshot returns a    *)
(* TagSettings.                                                            *)
(***************************************************************************)
C18_NoFatalErrors ==
    /\ [](\A t \in Threads :
             /\ pc[t] \in InLoadOrEntering \ { "L159" } =>
                    ENABLED (LoadEnter(t) \/ Open(t) \/ LoadReturn(t))
             /\ (pc[t] = "L159" /\ frame[t].reader # <<>>) =>
                    LET parsed == _parse_row(DictReaderRow(Head(frame[t].reader)))
                    IN  /\ Len(parsed) = 2
                        /\ Len(parsed[1]) <= 1
                        /\ \/ parsed[2] = None
                           \/ DOMAIN Val(parsed[2]) = DOMAIN TagSettingsOverride)
    /\ [][ \A t \in Threads :
              (pc[t] \in InLoadOrEntering /\ (pc'[t] # pc[t] \/ frame'[t] # frame[t])) =>
                  /\ pc'[t] \in InLoadOrEntering \cup { "assign" }
                  /\ \/ LoadRank(t)' > LoadRank(t)
                     \/ /\ LoadRank(t)' = LoadRank(t)
                        /\ Len(frame'[t].reader) < Len(frame[t].reader)
                  /\ pc'[t] = "assign" =>
                         /\ frame'[t].result = Len(config_heap')
                         /\ config_heap'[frame'[t].result].global_settings
                                \in 1..Len(settings_heap')
                         /\ config_heap'[frame'[t].result].overrides
                                \in 1..Len(dict_heap') ]_vars
    /\ [](\A t \in Threads :
             resolved[t] # None =>
                 /\ IsTagSettings(Val(resolved[t]).result)
                 /\ Val(resolved[t]).result.tag_name # <<>>)

\* The config file was absent, the copy of the template left a file whose read
\* raised, and a name was resolved on the snapshot that load returned.
C18_Witness ==
    \E t \in Threads :
        /\ resolved[t] # None
        /\ LoadOf(Val(resolved[t])).failed
        /\ config_file = Some(<<>>)
        /\ template_file # None
        /\ IsTagSettings(Val(resolved[t]).result)

\* the built-in defaults, as the claim lists them
BuiltInDefaults ==
    [ tag_name |-> <<"_","_","g","l","o","b","a","l","_","_">>,
      stash_name |-> None,
      markers_enabled |-> TRUE,
      scene_tag_enabled |-> TRUE,
      image_enabled |-> FALSE,
      required_scene_tag_duration |-> None,
      min_marker_duration |-> None,
      max_gap |-> None,
      merge_strategy |-> <<"d","e","f","a","u","l","t">>,
      merge_params |-> << None, None, None, None, None >> ]

(***************************************************************************)
(* C19 (as amended: the derived stash_name is trim(t) + suffix, for t      *)
(* whose trim is non-empty).  When no config file exists after the         *)
(* provisioning attempt, the template being absent or its copy having      *)
(* failed, load returns a snapshot with the built-in defaults and an empty *)
(* overrides mapping, and resolve(t) returns those defaults under the name *)
(* trim(t) with stash_name = trim(t) + suffix ("Blonde_AI" for "Blonde"    *)
(* and the suffix "_AI").  (The file does not change after the load.)      *)
(***************************************************************************)
C19_MissingFileDefaults ==
    config_file = None =>
        /\ \A c \in 1..Len(built) :
               /\ ~built[c].failed
               /\ built[c].global_settings = BuiltInDefaults
               /\ built[c].overrides = <<>>
        /\ \A t \in Threads :
               (resolved[t] # None /\ strip(Val(resolved[t]).tag_name) # <<>>) =>
                   LET r == Val(resolved[t])
                       name == strip(r.tag_name)
                   IN  /\ r.result =
                              [ BuiltInDefaults EXCEPT
                                  !.tag_name = name,
                                  !.stash_name = Some(name \o ConfigOf(r).tag_suffix) ]
                       /\ (r.tag_name = sBlonde /\ ConfigOf(r).tag_suffix = s_AI) =>
                              r.result.stash_name = Some(sBlonde_AI)

\* The template exists and its copy failed; "Blonde" resolves to the defaults
\* with stash_name "Blonde_AI".
C19_Witness ==
    \E t \in Threads :
        /\ config_file = None
        /\ template_file # None
        /\ resolved[t] # None
        /\ Val(resolved[t]).tag_name = sBlonde
        /\ Val(resolved[t]).result.stash_name = Some(sBlonde_AI)
        /\ Val(resolved[t]).result.markers_enabled = TRUE
        /\ OverridesOf(ConfigOf(Val(resolved[t]))) = <<>>

\* C19 as stated: stash_name = t + suffix for every non-empty t.
C19_Original ==
    config_file = None =>
        /\ \A c \in 1..Len(built) :
               /\ built[c].global_settings = BuiltInDefaults
               /\ built[c].overrides = <<>>
        /\ \A t \in Threads :
               (resolved[t] # None /\ Val(resolved[t]).tag_name # <<>>) =>
                   LET r == Val(resolved[t])
                   IN  SameSettings(r.result,
                                    [ BuiltInDefaults EXCEPT
                                        !.stash_name =
                                            Some(r.tag_name \o ConfigOf(r).tag_suffix) ])

(***************************************************************************)
(* C20.  Applying an override whose stash_name is the empty string sets    *)
(* the base's stash_name to null, neither keeping the old value nor        *)
(* storing "", and resolve then derives the stash_name as the trimmed name *)
(* + suffix; every other field takes the override's value exactly when     *)
(* that value is non-null.                                                 *)
(***************************************************************************)
C20_EmptyStashNameClears ==
    \A t \in Threads :
        (resolved[t] # None /\ LookedUp(Val(resolved[t])) # None) =>
            LET r == Val(resolved[t])
                base == GlobalOf(ConfigOf(r))
                o == Val(LookedUp(r))
                applied == _apply_override(base, o)
            IN  /\ o.stash_name = Some(<<>>) =>
                       /\ applied.stash_name = None
                       /\ r.result.stash_name =
                              Some(strip(r.tag_name) \o ConfigOf(r).tag_suffix)
                /\ OtherFieldsFollowOverride(applied, base, o)
                /\ (o.stash_name # None /\ o.stash_name # Some(<<>>)) =>
                       applied.stash_name = o.stash_name
                /\ o.stash_name = None => applied.stash_name = base.stash_name

\* The baseline has a stash_name, the override's is the empty string, and the
\* resolved one is derived from the name.
C20_Witness ==
    \E t \in Threads :
        /\ resolved[t] # None
        /\ Val(resolved[t]).tag_name = sBlonde
        /\ LookedUp(Val(resolved[t])) # None
        /\ Val(LookedUp(Val(resolved[t]))).stash_name = Some(<<>>)
        /\ GlobalOf(ConfigOf(Val(resolved[t]))).stash_name = Some(sShared)
        /\ ConfigOf(Val(resolved[t])).tag_suffix = s_AI
        /\ Val(resolved[t]).result.stash_name = Some(sBlonde_AI)

\* the names that differ from t at most in case and surrounding whitespace
SameKey(t) == { u \in TagNames : lower(strip(u)) = lower(strip(t)) }

\* the stash_name the merge of lines 118-121 leaves: the override's if it has one,
\* else the baseline's
MergedStashName(r) ==
    IF LookedUp(r) # None /\ Val(LookedUp(r)).stash_name # None
    THEN Val(LookedUp(r)).stash_name
    ELSE GlobalOf(ConfigOf(r)).stash_name

sblonde_AI == <<"b","l","o","n","d","e","_","A","I">>

(***************************************************************************)
(* C21.  For names t, u with lower(trim(t)) = lower(trim(u)) non-empty,    *)
(* resolve applies the same stored override (the one under that key) to    *)
(* both, and the results agree in every field but tag_name, which is       *)
(* trim(t) and trim(u), and a derived stash_name, which is trim(t) +       *)
(* suffix and trim(u) + suffix.  Names that are both empty after trimming  *)
(* resolve to equal results.                                               *)
(***************************************************************************)
C21_LookupIgnoresCaseAndSpace ==
    \A t \in Threads :
        /\ (resolved[t] # None /\ strip(Val(resolved[t]).tag_name) = <<>>) =>
               \A u \in SameKey(Val(resolved[t]).tag_name) :
                   resolve(ConfigOf(Val(resolved[t])), u) = Val(resolved[t]).result
        /\ (resolved[t] # None /\ strip(Val(resolved[t]).tag_name) # <<>>) =>
            LET r == Val(resolved[t])
                key == lower(strip(r.tag_name))
                stored == OverridesOf(ConfigOf(r))
                derived == MergedStashName(r) = None \/ MergedStashName(r) = Some(<<>>)
            IN  \A u \in SameKey(r.tag_name) :
                    LET other == resolve(ConfigOf(r), u)
                    IN  /\ r.result.tag_name = strip(r.tag_name)
                        /\ other.tag_name = strip(u)
                        /\ key \in DOMAIN stored =>
                               /\ OtherFieldsFollowOverride(r.result, GlobalOf(ConfigOf(r)),
                                                            stored[key])
                               /\ OtherFieldsFollowOverride(other, GlobalOf(ConfigOf(r)),
                                                            stored[key])
                        /\ \A f \in DOMAIN r.result \ { "tag_name", "stash_name" } :
                               r.result[f] = other[f]
                        /\ IF derived
                           THEN /\ r.result.stash_name =
                                       Some(strip(r.tag_name) \o ConfigOf(r).tag_suffix)
                                /\ other.stash_name = Some(strip(u) \o ConfigOf(r).tag_suffix)
                           ELSE r.result.stash_name = other.stash_name

\* " blonde " and "Blonde" on a snapshot that stores an override under "blonde":
\* both get its image_enabled, and each a stash_name in its own spelling.
C21_Witness ==
    \E t \in Threads :
        /\ resolved[t] # None
        /\ Val(resolved[t]).tag_name = <<" ","b","l","o","n","d","e"," ">>
        /\ sBlonde \in SameKey(Val(resolved[t]).tag_name)
        /\ LookedUp(Val(resolved[t])) # None
        /\ GlobalOf(ConfigOf(Val(resolved[t]))).image_enabled = FALSE
        /\ Val(resolved[t]).result.image_enabled = TRUE
        /\ Val(resolved[t]).result.stash_name = Some(sblonde_AI)
        /\ resolve(ConfigOf(Val(resolved[t])), sBlonde).image_enabled = TRUE
        /\ resolve(ConfigOf(Val(resolved[t])), sBlonde).stash_name = Some(sBlonde_AI)

\* a stash_name that is set and not the empty string
NonEmpty(stash_name) == stash_name # None /\ Val(stash_name) # <<>>

\* the override a resolve call applied has a stash_name of its own, be it empty
HasOwn(r) == LookedUp(r) # None /\ Val(LookedUp(r)).stash_name # None

(***************************************************************************)
(* C22 (as amended: for a name that is non-empty after trimming; an        *)
(* override whose stash_name is the empty string clears the baseline's).   *)
(* The resolved stash_name is trim(name) + suffix if and only if the tag's *)
(* override supplies no non-empty stash_name and the baseline supplies     *)
(* none either or the override's is the empty string; otherwise it is the  *)
(* override's, or else the baseline's: the StashName of a default row is   *)
(* inherited verbatim by every tag without a StashName of its own, so that *)
(* two distinct names resolve to the same stash_name.  For a name that is  *)
(* empty after trimming, an unset stash_name is the empty string.          *)
(***************************************************************************)
C22_StashNameDerivation ==
    \A t \in Threads :
        resolved[t] # None =>
            LET r == Val(resolved[t])
                name == strip(r.tag_name)
                base == GlobalOf(ConfigOf(r))
                supplied == IF HasOwn(r) THEN NonEmpty(Val(LookedUp(r)).stash_name)
                            ELSE NonEmpty(base.stash_name)
            IN  IF name = <<>>
                THEN r.result.stash_name =
                         IF NonEmpty(base.stash_name) THEN base.stash_name ELSE Some(<<>>)
                ELSE /\ (r.result.stash_name = Some(name \o ConfigOf(r).tag_suffix))
                           <=> ~supplied
                     /\ (supplied /\ HasOwn(r)) =>
                            r.result.stash_name = Val(LookedUp(r)).stash_name
                     /\ (supplied /\ ~HasOwn(r)) =>
                            /\ r.result.stash_name = base.stash_name
                            /\ \A u \in TagNames :
                                   ( /\ strip(u) # <<>>
                                     /\ ~HasOwn([ r EXCEPT !.tag_name = u ]) ) =>
                                       resolve(ConfigOf(r), u).stash_name = base.stash_name

\* A default row gives the StashName "Shared"; "CAT", which has no row, and
\* "Blonde", whose row has no StashName, both resolve to it.
C22_Witness ==
    \E t \in Threads :
        /\ resolved[t] # None
        /\ LoadOf(Val(resolved[t])).rows = << rowShared, rowBlonde >>
        /\ ~LoadOf(Val(resolved[t])).failed
        /\ Val(resolved[t]).tag_name = <<"C","A","T">>
        /\ LookedUp(Val(resolved[t])) = None
        /\ Val(resolved[t]).result.stash_name = Some(sShared)
        /\ LookedUp([ Val(resolved[t]) EXCEPT !.tag_name = sBlonde ]) # None
        /\ resolve(ConfigOf(Val(resolved[t])), sBlonde).stash_name = Some(sShared)

\* C22 as stated: for every name, the stash_name is name + suffix if and only if
\* neither the baseline nor the tag's override supplies a non-empty one.
C22_Original ==
    \A t \in Threads :
        resolved[t] # None =>
            LET r == Val(resolved[t])
                name == strip(r.tag_name)
                base == GlobalOf(ConfigOf(r))
            IN  (r.result.stash_name = Some(name \o ConfigOf(r).tag_suffix))
                    <=> ~( \/ NonEmpty(base.stash_name)
                           \/ /\ LookedUp(r) # None
                              /\ NonEmpty(Val(LookedUp(r)).stash_name) )

====
